---- MODULE Spec2Model ----
(***************************************************************************)
(* Model of src/data_preparation.py: the wind-speed preparation pipeline   *)
(* (load_and_clean_data, calculate_daily_means, calculate_monthly_means,   *)
(* find_top_windiest_days, export_for_tableau, prepare_data_for_tableau).  *)
(*                                                                         *)
(* A DataFrame is [columns : sequence of names, rows : sequence of rows],  *)
(* a row being a function from the column names to the cell values.        *)
(* A float cell is <<>> when it is NaN and otherwise holds its value; a    *)
(* mean is the exact fraction <<num, den>> in lowest terms, in units of    *)
(* 1e-5 m/s (binary floating-point rounding is not modelled).              *)
(* A timestamp is the integer yyyymmdd, whose order is the calendar order. *)
(***************************************************************************)
EXTENDS Integers, Sequences, FiniteSets, TLC

VARIABLES pc, raw, df, daily, monthly, top_days, top_args, files, error

vars == <<pc, raw, df, daily, monthly, top_days, top_args, files, error>>

\* ------------------------------------------------------------------ bounds
MaxRawRows == 2
MaxRows == 2
MaxTopN == 2

\* --------------------------------------------------------------- constants
MPH_TO_MS == 44704
AIRPORTS == <<"EWR", "JFK", "LGA">>
DEFAULT_TOP_N == 20

\* ----------------------------------------------------------------- helpers
Range(s) == {s[i] : i \in 1..Len(s)}

Min(a, b) == IF a <= b THEN a ELSE b

RECURSIVE GCD(_, _)
GCD(a, b) == IF b = 0 THEN a ELSE GCD(b, a % b)

RECURSIVE SeqSum(_)
SeqSum(s) == IF s = <<>> THEN 0 ELSE Head(s) + SeqSum(Tail(s))

\* Series.mean() of a non-empty sequence of integers, as a reduced fraction
Mean(s) ==
    LET g == GCD(SeqSum(s), Len(s))
    IN  <<SeqSum(s) \div g, Len(s) \div g>>

\* a > b for two means
MeanGreater(a, b) == a[1] * b[2] > b[1] * a[2]

\* lexical order of the site codes, as the sort of a string key compares them
SiteOrder == <<"EWR", "JFK", "LGA", "ORD">>

SiteRank(s) == CHOOSE i \in 1..Len(SiteOrder) : SiteOrder[i] = s

\* ascending sequence of a finite set of integers
RECURSIVE SortInts(_)
SortInts(S) ==
    IF S = {} THEN <<>>
    ELSE LET m == CHOOSE x \in S : \A y \in S : x <= y
         IN  <<m>> \o SortInts(S \ {m})

\* ascending (lexical) sequence of a finite set of site codes
RECURSIVE SortSites(_)
SortSites(S) ==
    IF S = {} THEN <<>>
    ELSE LET m == CHOOSE x \in S : \A y \in S : SiteRank(x) <= SiteRank(y)
         IN  <<m>> \o SortSites(S \ {m})

\* ascending sequence of a finite set of <<int, site>> keys
RECURSIVE SortKeys(_)
SortKeys(S) ==
    IF S = {} THEN <<>>
    ELSE LET m == CHOOSE x \in S : \A y \in S :
                      \/ x[1] < y[1]
                      \/ x[1] = y[1] /\ SiteRank(x[2]) <= SiteRank(y[2])
         IN  <<m>> \o SortKeys(S \ {m})

\* results of a call
NotRun == [state |-> "none"]
Returned(v) == [state |-> "returned", value |-> v]
Raised(e) == [state |-> "raised", error |-> e]

HasColumn(t, c) == c \in Range(t.columns)

\* df[c] = values : the column is appended when new, overwritten in place
\* when it already exists
SetColumn(t, c, values) ==
    [columns |-> IF HasColumn(t, c) THEN t.columns ELSE Append(t.columns, c),
     rows    |-> [i \in 1..Len(t.rows) |->
                    [k \in DOMAIN t.rows[i] \cup {c} |->
                        IF k = c THEN values[i] ELSE t.rows[i][k]]]]

\* ------------------------------------------------------------ pd.to_datetime
IsLeap(y) == (y % 4 = 0 /\ y % 100 # 0) \/ y % 400 = 0

DaysInMonth(y, m) ==
    IF m \in {4, 6, 9, 11} THEN 30
    ELSE IF m = 2 THEN (IF IsLeap(y) THEN 29 ELSE 28)
    ELSE 31

\* pandas assembles the three columns into one integer ...
AssembleYMD(r) == r["year"] * 10000 + r["month"] * 100 + r["day"]

\* ... and parses it with the format %Y%m%d (errors='raise'): the value has
\* to read as four year digits, a month 01..12 and a day of that month
ParsesAsYmd(v) ==
    /\ v >= 16780101 /\ v <= 22611231
    /\ (v \div 100) % 100 \in 1..12
    /\ v % 100 \in 1..DaysInMonth(v \div 10000, (v \div 100) % 100)

\* pd.to_datetime(df[['year', 'month', 'day']])
to_datetime(t) ==
    IF ~ ({"year", "month", "day"} \subseteq Range(t.columns))
    THEN Raised("KeyError")
    ELSE IF \E i \in 1..Len(t.rows) : ~ ParsesAsYmd(AssembleYMD(t.rows[i]))
    THEN Raised("ValueError")
    ELSE Returned([i \in 1..Len(t.rows) |-> AssembleYMD(t.rows[i])])

\* ------------------------------------------------------ load_and_clean_data
\* the isin filter left out: every row with an origin passes
IsKnownAirport_AnyOrigin(r) == r["origin"] # ""

IsKnownAirport(r) == r["origin"] \in Range(AIRPORTS)

HasWindSpeed(r) == r["wind_speed"] # <<>>

WithWindSpeedMs(r) ==
    [k \in DOMAIN r \cup {"wind_speed_ms"} |->
        IF k = "wind_speed_ms"
        THEN (IF r["wind_speed"] = <<>> THEN <<>>
              ELSE <<r["wind_speed"][1] * MPH_TO_MS>>)
        ELSE r[k]]

load_and_clean_data(file) ==
    IF ~ HasColumn(file, "origin") THEN Raised("KeyError")
    ELSE IF ~ HasColumn(file, "wind_speed") THEN Raised("KeyError")
    ELSE LET known == SelectSeq(file.rows, IsKnownAirport)
             kept  == SelectSeq(known, HasWindSpeed)
         IN  Returned([columns |-> Append(file.columns, "wind_speed_ms"),
                       rows    |-> [i \in 1..Len(kept) |->
                                       WithWindSpeedMs(kept[i])]])

\* ---------------------------------------------------- calculate_daily_means
\* grouping on the date alone: the sites of one day are pooled
RECURSIVE DayGroup_DateOnly(_, _)
DayGroup_DateOnly(rows, key) ==
    IF rows = <<>> THEN <<>>
    ELSE (IF Head(rows)["date"] = key[1]
          THEN <<Head(rows)["wind_speed_ms"][1]>> ELSE <<>>)
         \o DayGroup_DateOnly(Tail(rows), key)

\* the wind_speed_ms values of the rows with the given date and origin
RECURSIVE DayGroup(_, _)
DayGroup(rows, key) ==
    IF rows = <<>> THEN <<>>
    ELSE (IF <<Head(rows)["date"], Head(rows)["origin"]>> = key
          THEN <<Head(rows)["wind_speed_ms"][1]>> ELSE <<>>)
         \o DayGroup(Tail(rows), key)

\* df.groupby(['date', 'origin'])['wind_speed_ms'].mean().reset_index()
GroupByDateOrigin(rows) ==
    LET keys == SortKeys({<<rows[i]["date"], rows[i]["origin"]>> :
                              i \in 1..Len(rows)})
    IN  [j \in 1..Len(keys) |->
            [Date          |-> keys[j][1],
             Airport       |-> keys[j][2],
             Wind_Speed_ms |-> Mean(DayGroup(rows, keys[j]))]]

\* a version that also drops, in place, the repeated (date, origin) rows of
\* the table it was given
calculate_daily_means_DropDuplicates(t) ==
    LET dates == to_datetime(t)
    IN  IF dates.state = "raised"
        THEN [result |-> dates, df |-> t]
        ELSE LET dated == SetColumn(t, "date", dates.value)
                 first == {i \in 1..Len(dated.rows) :
                              \A k \in 1..(i - 1) :
                                  \/ dated.rows[k]["date"] # dated.rows[i]["date"]
                                  \/ dated.rows[k]["origin"] # dated.rows[i]["origin"]}
                 kept  == SortInts(first)
             IN  [result |-> Returned(GroupByDateOrigin(dated.rows)),
                  df     |-> [columns |-> dated.columns,
                              rows    |-> [j \in 1..Len(kept) |->
                                              dated.rows[kept[j]]]]]

\* result and the table as the call leaves it
calculate_daily_means(t) ==
    LET dates == to_datetime(t)
    IN  IF dates.state = "raised"
        THEN [result |-> dates, df |-> t]
        ELSE LET dated == SetColumn(t, "date", dates.value)
             IN  [result |-> Returned(GroupByDateOrigin(dated.rows)),
                  df     |-> dated]

\* -------------------------------------------------- calculate_monthly_means
\* the wind_speed_ms values of the rows with the given month and origin
RECURSIVE MonthGroup(_, _)
MonthGroup(rows, key) ==
    IF rows = <<>> THEN <<>>
    ELSE (IF <<Head(rows)["month"], Head(rows)["origin"]>> = key
          THEN <<Head(rows)["wind_speed_ms"][1]>> ELSE <<>>)
         \o MonthGroup(Tail(rows), key)

\* df.groupby(['month', 'origin'])['wind_speed_ms'].mean().reset_index()
GroupByMonthOrigin(rows) ==
    LET keys == SortKeys({<<rows[i]["month"], rows[i]["origin"]>> :
                              i \in 1..Len(rows)})
    IN  [j \in 1..Len(keys) |->
            [Month         |-> keys[j][1],
             Airport       |-> keys[j][2],
             Wind_Speed_ms |-> Mean(MonthGroup(rows, keys[j]))]]

\* a pivot that fills the absent cells with 0.0 (pivot_table, fill_value=0)
Pivot_FillZero(long) ==
    LET months == SortInts({long[i].Month : i \in 1..Len(long)})
        sites  == SortSites({long[i].Airport : i \in 1..Len(long)})
        Cell(m, s) ==
            IF \E i \in 1..Len(long) : long[i].Month = m /\ long[i].Airport = s
            THEN long[CHOOSE i \in 1..Len(long) :
                          long[i].Month = m /\ long[i].Airport = s].Wind_Speed_ms
            ELSE <<0, 1>>
    IN  [columns |-> <<"Month">> \o sites,
         rows    |-> [j \in 1..Len(months) |->
                        [c \in {"Month"} \cup Range(sites) |->
                            IF c = "Month" THEN months[j]
                            ELSE Cell(months[j], c)]]]

\* monthly.pivot(index='Month', columns='Airport', values='Wind_Speed_ms')
\* followed by reset_index(): a cell without a long-format row is NaN
Pivot(long) ==
    LET months == SortInts({long[i].Month : i \in 1..Len(long)})
        sites  == SortSites({long[i].Airport : i \in 1..Len(long)})
        Cell(m, s) ==
            IF \E i \in 1..Len(long) : long[i].Month = m /\ long[i].Airport = s
            THEN long[CHOOSE i \in 1..Len(long) :
                          long[i].Month = m /\ long[i].Airport = s].Wind_Speed_ms
            ELSE <<>>
    IN  [columns |-> <<"Month">> \o sites,
         rows    |-> [j \in 1..Len(months) |->
                        [c \in {"Month"} \cup Range(sites) |->
                            IF c = "Month" THEN months[j]
                            ELSE Cell(months[j], c)]]]

calculate_monthly_means(t) ==
    IF ~ ({"month", "origin", "wind_speed_ms"} \subseteq Range(t.columns))
    THEN Raised("KeyError")
    ELSE Returned(Pivot(GroupByMonthOrigin(t.rows)))

\* --------------------------------------------------- find_top_windiest_days
IsDescending(s) ==
    \A i \in 1..Len(s) - 1 :
        ~ MeanGreater(s[i + 1].Wind_Speed_ms, s[i].Wind_Speed_ms)

\* the wind_speed_ms values of the rows with the given date
RECURSIVE DateGroup(_, _)
DateGroup(rows, d) ==
    IF rows = <<>> THEN <<>>
    ELSE (IF Head(rows)["date"] = d
          THEN <<Head(rows)["wind_speed_ms"][1]>> ELSE <<>>)
         \o DateGroup(Tail(rows), d)

\* airport_df.groupby('date')['wind_speed_ms'].mean().reset_index()
GroupByDate(rows) ==
    LET keys == SortInts({rows[i]["date"] : i \in 1..Len(rows)})
    IN  [j \in 1..Len(keys) |->
            [Date          |-> keys[j],
             Wind_Speed_ms |-> Mean(DateGroup(rows, keys[j]))]]

\* Series.sort_values(ascending=False) with the default kind='quicksort',
\* which is not a stable sort: every descending arrangement is an outcome
SortValuesDescending(s) ==
    {p \in [1..Len(s) -> Range(s)] : Range(p) = Range(s) /\ IsDescending(p)}

\* argsort(kind='mergesort') on the negated values: descending and stable
RECURSIVE InsertStable(_, _)
InsertStable(sorted, x) ==
    IF sorted = <<>> THEN <<x>>
    ELSE IF MeanGreater(x.Wind_Speed_ms, Head(sorted).Wind_Speed_ms)
         THEN <<x>> \o sorted
         ELSE <<Head(sorted)>> \o InsertStable(Tail(sorted), x)

RECURSIVE MergesortDescending(_)
MergesortDescending(s) ==
    IF s = <<>> THEN <<>>
    ELSE InsertStable(MergesortDescending(SubSeq(s, 1, Len(s) - 1)), s[Len(s)])

\* algos.kth_smallest on the negated values: the n-th largest value
KthLargest(s, n) ==
    LET v == CHOOSE x \in {s[i].Wind_Speed_ms : i \in 1..Len(s)} :
                 /\ Cardinality({i \in 1..Len(s) :
                        MeanGreater(s[i].Wind_Speed_ms, x)}) < n
                 /\ Cardinality({i \in 1..Len(s) :
                        ~ MeanGreater(x, s[i].Wind_Speed_ms)}) >= n
    IN  v

\* a descending sort without the cut to the first n rows
nlargest_NoHead(s, n) == SortValuesDescending(s)

\* daily.nlargest(n, 'Wind_Speed_ms'), keep='first': the set of outcomes
nlargest(s, n) ==
    IF n <= 0 THEN {<<>>}
    ELSE IF n >= Len(s) THEN SortValuesDescending(s)
    ELSE LET kth    == KthLargest(s, n)
             NotBelow(x) == ~ MeanGreater(kth, x.Wind_Speed_ms)
             ns     == SelectSeq(s, NotBelow)
         IN  {SubSeq(MergesortDescending(ns), 1, n)}

WithAirport(s, airport) ==
    [i \in 1..Len(s) |->
        [Date          |-> s[i].Date,
         Wind_Speed_ms |-> s[i].Wind_Speed_ms,
         Airport       |-> airport]]

\* the set of results the call can give; the table passed in is not touched
\* (the function works on a .copy() of the filtered rows)
find_top_windiest_days(t, airport, top_n) ==
    IF ~ HasColumn(t, "origin") THEN {Raised("KeyError")}
    ELSE LET IsAirport(r) == r["origin"] = airport
             airport_df == [columns |-> t.columns,
                            rows    |-> SelectSeq(t.rows, IsAirport)]
             dates == to_datetime(airport_df)
         IN  IF dates.state = "raised" THEN {dates}
             ELSE LET dated == SetColumn(airport_df, "date", dates.value)
                      means == GroupByDate(dated.rows)
                  IN  {Returned(WithAirport(top, airport)) :
                          top \in nlargest(means, top_n)}

\* ------------------------------------------------------- export_for_tableau
\* DataFrame.to_csv(path): the file then holds the table
to_csv(fs, name, result) == (name :> result.value) @@ fs

\* ------------------------------------------------------------------ inputs
Origins == {"JFK", "LGA", "ORD"}
WindSpeeds == {<<>>, <<10>>, <<20>>}

\* <<year, month, day>> of the input rows: three calendar dates of one
\* year, the same day of another year, April 31st, and a day beyond 99
YearMonthDays ==
    {<<2013, 1, 30>>, <<2013, 1, 31>>, <<2013, 4, 30>>, <<2014, 1, 30>>,
     <<2013, 4, 31>>, <<2013, 1, 101>>}

RAW_COLUMNS == <<"origin", "year", "month", "day", "wind_speed">>

RawRows ==
    {[origin |-> o, year |-> d[1], month |-> d[2], day |-> d[3],
      wind_speed |-> w] :
        o \in Origins, d \in YearMonthDays, w \in WindSpeeds}

Table(rs) == [columns |-> RAW_COLUMNS, rows |-> rs]

\* a file whose header lacks one column
WithoutColumn(t, c) ==
    LET NotC(x) == x # c
    IN  [columns |-> SelectSeq(t.columns, NotC),
         rows    |-> [i \in 1..Len(t.rows) |->
                        [k \in DOMAIN t.rows[i] \ {c} |-> t.rows[i][k]]]]

NoTable == [columns |-> <<>>, rows |-> <<>>]
NoArgs == [airport |-> "", top_n |-> 0]
NoFiles == <<>>

\* ------------------------------------------------- prepare_data_for_tableau
Init ==
    /\ pc = "step1"
    /\ \E k \in 0..MaxRawRows : \E rs \in [1..k -> RawRows] :
           \/ raw = Table(rs)
           \/ \E c \in Range(RAW_COLUMNS) : raw = WithoutColumn(Table(rs), c)
    /\ df = NoTable
    /\ daily = NotRun
    /\ monthly = NotRun
    /\ top_days = NotRun
    /\ top_args = NoArgs
    /\ files = NoFiles
    /\ error = ""

\* df = load_and_clean_data(input_file)
Step1 ==
    /\ pc = "step1"
    /\ LET r == load_and_clean_data(raw)
       IN  IF r.state = "raised"
           THEN /\ pc' = "aborted"
                /\ error' = r.error
                /\ df' = df
           ELSE /\ pc' = "step2"
                /\ error' = error
                /\ df' = r.value
    /\ UNCHANGED <<raw, daily, monthly, top_days, top_args, files>>

\* a step 2 that reports the error of the daily aggregation and goes on
Step2_Swallow ==
    /\ pc = "step2"
    /\ LET c == calculate_daily_means(df)
       IN  /\ df' = c.df
           /\ pc' = "step3"
           /\ IF c.result.state = "raised"
              THEN /\ error' = c.result.error
                   /\ daily' = Returned(<<>>)
              ELSE /\ error' = error
                   /\ daily' = c.result
    /\ UNCHANGED <<raw, monthly, top_days, top_args, files>>

\* daily = calculate_daily_means(df)
Step2 ==
    /\ pc = "step2"
    /\ LET c == calculate_daily_means(df)
       IN  /\ df' = c.df
           /\ IF c.result.state = "raised"
              THEN /\ pc' = "aborted"
                   /\ error' = c.result.error
                   /\ daily' = daily
              ELSE /\ pc' = "step3"
                   /\ error' = error
                   /\ daily' = c.result
    /\ UNCHANGED <<raw, monthly, top_days, top_args, files>>

\* monthly = calculate_monthly_means(df)
Step3 ==
    /\ pc = "step3"
    /\ LET r == calculate_monthly_means(df)
       IN  IF r.state = "raised"
           THEN /\ pc' = "aborted"
                /\ error' = r.error
                /\ monthly' = monthly
           ELSE /\ pc' = "step4"
                /\ error' = error
                /\ monthly' = r
    /\ UNCHANGED <<raw, df, daily, top_days, top_args, files>>

\* top_days = find_top_windiest_days(df, airport='LGA', top_n=20)
Step4 ==
    /\ pc = "step4"
    /\ top_args' = [airport |-> "LGA", top_n |-> DEFAULT_TOP_N]
    /\ \E r \in find_top_windiest_days(df, "LGA", DEFAULT_TOP_N) :
           IF r.state = "raised"
           THEN /\ pc' = "aborted"
                /\ error' = r.error
                /\ top_days' = top_days
           ELSE /\ pc' = "step5"
                /\ error' = error
                /\ top_days' = r
    /\ UNCHANGED <<raw, df, daily, monthly, files>>

\* export_for_tableau(daily, monthly, top_days, output_dir), one to_csv
\* after the other
ExportDaily ==
    /\ pc = "step5"
    /\ files' = to_csv(files, "daily_wind_speeds.csv", daily)
    /\ pc' = "export_monthly"
    /\ UNCHANGED <<raw, df, daily, monthly, top_days, top_args, error>>

ExportMonthly ==
    /\ pc = "export_monthly"
    /\ files' = to_csv(files, "monthly_wind_speeds.csv", monthly)
    /\ pc' = "export_top"
    /\ UNCHANGED <<raw, df, daily, monthly, top_days, top_args, error>>

ExportTop ==
    /\ pc = "export_top"
    /\ files' = to_csv(files, "top_windiest_days.csv", top_days)
    /\ pc' = "complete"
    /\ UNCHANGED <<raw, df, daily, monthly, top_days, top_args, error>>

Next ==
    \/ Step1
    \/ Step2
    \/ Step3
    \/ Step4
    \/ ExportDaily
    \/ ExportMonthly
    \/ ExportTop

Spec == Init /\ [][Next]_vars

\* ------------------------------------------ the three consumers, any order
\* Each of the functions is called at most once on the one cleaned table,
\* in any order, the ranker with any airport and any top_n > 0.
CleanRows == {r \in RawRows : IsKnownAirport(r) /\ HasWindSpeed(r)}

RankedAirports == {"EWR", "JFK", "LGA"}

InitCalls ==
    /\ pc = "calls"
    /\ \E k \in 0..MaxRows : \E rs \in [1..k -> CleanRows] : raw = Table(rs)
    /\ df = load_and_clean_data(raw).value
    /\ daily = NotRun
    /\ monthly = NotRun
    /\ top_days = NotRun
    /\ top_args = NoArgs
    /\ files = NoFiles
    /\ error = ""

CallDaily ==
    /\ daily = NotRun
    /\ LET c == calculate_daily_means(df)
       IN  /\ df' = c.df
           /\ daily' = c.result
    /\ UNCHANGED <<pc, raw, monthly, top_days, top_args, files, error>>

CallMonthly ==
    /\ monthly = NotRun
    /\ monthly' = calculate_monthly_means(df)
    /\ UNCHANGED <<pc, raw, df, daily, top_days, top_args, files, error>>

CallTop ==
    /\ top_days = NotRun
    /\ \E airport \in RankedAirports, n \in 1..MaxTopN :
           /\ top_args' = [airport |-> airport, top_n |-> n]
           /\ top_days' \in find_top_windiest_days(df, airport, n)
    /\ UNCHANGED <<pc, raw, df, daily, monthly, files, error>>

NextCalls ==
    \/ CallDaily
    \/ CallMonthly
    \/ CallTop

SpecCalls == InitCalls /\ [][NextCalls]_vars

\* ------------------------------------------------- one consumer on its own
\* calculate_daily_means applied to a cleaned table
NextDaily == CallDaily

SpecDaily == InitCalls /\ [][NextDaily]_vars

\* calculate_monthly_means applied to a cleaned table
NextMonthly == CallMonthly

SpecMonthly == InitCalls /\ [][NextMonthly]_vars

\* find_top_windiest_days applied to a cleaned table
NextTop == CallTop

SpecTop == InitCalls /\ [][NextTop]_vars

\* ------------------------------------------------------------------ claims
KnownSites == {"EWR", "JFK", "LGA"}

Loaded == df # NoTable

\* the rows of the raw table that have to survive the cleaning
KeptIndexes == {i \in 1..Len(raw.rows) :
                    /\ raw.rows[i]["origin"] \in KnownSites
                    /\ raw.rows[i]["wind_speed"] # <<>>}

\* the j-th of them
KeptIndex(j) ==
    CHOOSE i \in KeptIndexes : Cardinality({k \in KeptIndexes : k <= i}) = j

\* a cleaned record without the derived columns
AsRead(r) == [k \in Range(raw.columns) |-> r[k]]

\* C1: the cleaned table is exactly the raw rows with a known site code and
\* a present wind speed, in their order: every record has a known site and
\* a non-missing wind speed, and no such raw row is dropped.
C1_CleanedIsExactlyKnownAndPresent ==
    Loaded =>
        /\ \A j \in 1..Len(df.rows) :
               /\ df.rows[j]["origin"] \in KnownSites
               /\ df.rows[j]["wind_speed"] # <<>>
               /\ df.rows[j]["wind_speed_ms"] # <<>>
        /\ Len(df.rows) = Cardinality(KeptIndexes)
        /\ \A j \in 1..Len(df.rows) : AsRead(df.rows[j]) = raw.rows[KeptIndex(j)]

C1_Witness ==
    /\ Loaded
    /\ Len(df.rows) = 1
    /\ \E i \in 1..Len(raw.rows) : raw.rows[i]["origin"] = "ORD"

\* sum of the metric wind speeds of the records at the indexes S
RECURSIVE SumAt(_, _)
SumAt(rows, S) ==
    IF S = {} THEN 0
    ELSE LET i == CHOOSE x \in S : TRUE
         IN  rows[i]["wind_speed_ms"][1] + SumAt(rows, S \ {i})

\* v is the arithmetic mean of the records at the non-empty index set S
IsMeanOf(v, rows, S) ==
    /\ S # {}
    /\ v # <<>>
    /\ v[1] * Cardinality(S) = v[2] * SumAt(rows, S)

\* C2: the daily result has exactly one row per distinct (date, site) pair
\* of the cleaned table, and each row's value is the arithmetic mean of the
\* metric wind speeds of exactly the records with that date and that site
\* (the date of a record being the one the call derived for it).
C2_DailyOneRowPerPairWithMean ==
    daily.state = "returned" =>
        LET rows  == df.rows
            pairs == {<<rows[i]["date"], rows[i]["origin"]>> :
                         i \in 1..Len(rows)}
            out   == daily.value
        IN  /\ Len(out) = Cardinality(pairs)
            /\ \A p \in pairs :
                   \E j \in 1..Len(out) : <<out[j].Date, out[j].Airport>> = p
            /\ \A j \in 1..Len(out) :
                   IsMeanOf(out[j].Wind_Speed_ms, rows,
                            {i \in 1..Len(rows) :
                                /\ rows[i]["date"] = out[j].Date
                                /\ rows[i]["origin"] = out[j].Airport})

C2_Witness ==
    /\ daily.state = "returned"
    /\ Len(df.rows) = 2
    /\ Len(daily.value) = 1
    /\ daily.value[1].Wind_Speed_ms = <<15 * MPH_TO_MS, 1>>

\* C3: in the monthly result the cell of a (month, site) pair with cleaned
\* observations is the mean of those observations, over all years and days
\* of that month number, and the cell of a pair without observations, in an
\* existing row and column, is null and not zero.
C3_MonthlyCells ==
    monthly.state = "returned" =>
        LET rows == df.rows
            out  == monthly.value
            Obs(m, s) == {i \in 1..Len(rows) :
                             rows[i]["month"] = m /\ rows[i]["origin"] = s}
        IN  /\ \A i \in 1..Len(rows) :
                   /\ rows[i]["origin"] \in Range(out.columns)
                   /\ \E j \in 1..Len(out.rows) :
                          out.rows[j]["Month"] = rows[i]["month"]
            /\ \A j \in 1..Len(out.rows) :
                   \A c \in Range(out.columns) \ {"Month"} :
                       IF Obs(out.rows[j]["Month"], c) # {}
                       THEN IsMeanOf(out.rows[j][c], rows,
                                     Obs(out.rows[j]["Month"], c))
                       ELSE out.rows[j][c] = <<>>

C3_Witness ==
    /\ monthly.state = "returned"
    /\ Len(monthly.value.rows) = 2
    /\ \E j \in 1..2 :
           /\ monthly.value.rows[j]["JFK"] = <<>>
           /\ monthly.value.rows[j]["LGA"] # <<>>

\* the date the code derives for a record
DateOf(r) == AssembleYMD(r)

SiteDates(site) ==
    {DateOf(df.rows[i]) : i \in {k \in 1..Len(df.rows) :
                                     df.rows[k]["origin"] = site}}

\* C4: for a site and n > 0 the ranker returns exactly
\* min(n, number of distinct dates of the site) rows, in descending order
\* of the daily mean, no date twice, every row carrying the site; a site
\* without cleaned rows gives an empty result and not an error.
C4_TopNLengthOrderSite ==
    /\ top_days.state = "returned" =>
           LET out == top_days.value
           IN  /\ top_args.top_n > 0
               /\ Len(out) = Min(top_args.top_n,
                                 Cardinality(SiteDates(top_args.airport)))
               /\ IsDescending(out)
               /\ \A i, j \in 1..Len(out) : i # j => out[i].Date # out[j].Date
               /\ \A i \in 1..Len(out) : out[i].Airport = top_args.airport
    /\ (top_days.state # "none" /\ SiteDates(top_args.airport) = {}) =>
           top_days = Returned(<<>>)

C4_Witness ==
    /\ top_days.state = "returned"
    /\ top_args.top_n = 1
    /\ Cardinality(SiteDates(top_args.airport)) = 2
    /\ Len(top_days.value) = 1
    /\ \A i \in 1..Len(df.rows) :
           ~ MeanGreater(df.rows[i]["wind_speed_ms"] \o <<1>>,
                         top_days.value[1].Wind_Speed_ms)

\* C5: after the cleaned table is produced no later stage changes it: every
\* step of the pipeline past the load leaves its rows, columns and values
\* as they were.
C5_CleanedNeverMutated == [][pc # "step1" => df' = df]_vars

ValidDate(r) ==
    /\ r["month"] \in 1..12
    /\ r["day"] \in 1..DaysInMonth(r["year"], r["month"])

\* C7: a call of calculate_daily_means on a table with a record that is not
\* a calendar date fails, and so does a call of find_top_windiest_days when
\* a record of the requested site is not a calendar date.
C7_InvalidDateRaises ==
    /\ (daily.state # "none" /\ \E i \in 1..Len(df.rows) : ~ ValidDate(df.rows[i]))
           => daily.state = "raised"
    /\ (top_days.state # "none"
        /\ \E i \in 1..Len(df.rows) :
               /\ df.rows[i]["origin"] = top_args.airport
               /\ ~ ValidDate(df.rows[i]))
           => top_days.state = "raised"

\* C8: the monthly result has the columns Month, EWR, JFK, LGA whichever
\* sites have observations, and one row per distinct month of the cleaned
\* table in ascending order.
C8_MonthlyColumnsAndRows ==
    monthly.state = "returned" =>
        LET out    == monthly.value
            months == {df.rows[i]["month"] : i \in 1..Len(df.rows)}
        IN  /\ out.columns = <<"Month", "EWR", "JFK", "LGA">>
            /\ Len(out.rows) = Cardinality(months)
            /\ \A j \in 1..Len(out.rows) : out.rows[j]["Month"] \in months
            /\ \A j \in 1..Len(out.rows) - 1 :
                   out.rows[j]["Month"] < out.rows[j + 1]["Month"]

Fresh == load_and_clean_data(raw).value

\* C10: whatever the order of the three calls on the one table, each result
\* is the one the function gives alone on a fresh copy of the cleaned table.
C10_ConsumersIndependent ==
    LET fresh == Fresh
    IN  /\ daily.state # "none" => daily = calculate_daily_means(fresh).result
        /\ monthly.state # "none" => monthly = calculate_monthly_means(fresh)
        /\ top_days.state # "none" =>
               top_days \in find_top_windiest_days(fresh, top_args.airport,
                                                   top_args.top_n)

C10_Witness ==
    /\ daily.state = "returned"
    /\ HasColumn(df, "date")
    /\ ~ HasColumn(Fresh, "date")
    /\ Len(df.rows) = 2
    /\ monthly.state = "returned"
    /\ top_days.state = "returned"
    /\ Len(top_days.value) > 0

====
